---------------------------- MODULE Spec2Model ----------------------------
(***************************************************************************)
(* A model of three parts of the wasmer repository:                        *)
(*   - lib/engine-dylib/src/trampoline.rs : the libcall trampoline table,  *)
(*     its two symbols, the per-libcall stubs and their relocations, and   *)
(*     the loader-side fill of the table;                                  *)
(*   - lib/runtime-c-api/src/memory.rs    : the C memory-handle interface; *)
(*   - lib/cli/src/cli.rs                 : the choice of the command.     *)
(* Each part has a specification of its own (SpecTramp, SpecMem, SpecCli); *)
(* the variables of the other parts stay at their idle values.             *)
(***************************************************************************)
EXTENDS Integers, Sequences, FiniteSets, TLC

VARIABLES
    target,     \* [arch, format]: the Target handed to emit_trampolines
    pre,        \* the object as it was before emit_trampolines was called
    obj,        \* the object::write::Object being built
    tpc,        \* position in emit_trampolines
    idx,        \* the libcall the emission loop is at
    textAddr,   \* address the loader mapped the text section at
    bssAddr,    \* address the loader mapped the bss section at
    lpc,        \* position of the loader / fill_trampoline_table
    fidx,       \* the libcall the fill loop is at
    mem,        \* the words written to mapped memory: address -> value
    writes,     \* the addresses fill_trampoline_table wrote, in order
    called,     \* the last call made through a stub
    handles,    \* every Memory allocation: "unalloc" | "live" | "freed"
    pages,      \* the size in pages of every Memory
    slot,       \* the caller's `wasmer_memory_t *memory` out-parameter
    last_error, \* what update_last_error recorded last
    last,       \* the last call of the memory interface and its outcome
    everFreed,  \* the handles a wasmer_memory_destroy released
    args,       \* std::env::args() after the program name
    features,   \* the cargo features the CLI was built with
    cpc,        \* position in wasmer_main
    outcome     \* what wasmer_main did

trampVars == <<target, pre, obj, tpc, idx, textAddr, bssAddr, lpc, fidx, mem, writes, called>>
memVars == <<handles, pages, slot, last_error, last, everFreed>>
cliVars == <<args, features, cpc, outcome>>
vars == <<trampVars, memVars, cliVars>>

(***************************************************************************)
(* Bounds.                                                                 *)
(***************************************************************************)
\* LibCall::VARIANT_COUNT: the number of libcalls (the enum is in wasmer_vm).
VARIANT_COUNT == 3
\* Bytes of code already in the text section when emit_trampolines is called.
MaxTextLen == 5
\* Bytes already reserved in the bss section when emit_trampolines is called.
MaxBssLen == 2

LibCalls == 0 .. (VARIANT_COUNT - 1)

Max(a, b) == IF a >= b THEN a ELSE b

AlignUp(n, a) == ((n + a - 1) \div a) * a

Zeros(k) == [j \in 1 .. k |-> 0]

(***************************************************************************)
(* Constants of trampoline.rs.                                             *)
(***************************************************************************)
\* Symbol names are byte vectors; a libcall's name is told by its number.
WASMER_TRAMPOLINES_SYMBOL == <<"WASMER_TRAMPOLINES">>

WASMER_TRAMPOLINES_SYMBOL_INTERNAL == <<"WASMER_TRAMPOLINES_INTERNAL">>

\* ADRP x17, #... ; LDR x17, [x17, #...] ; BR x17
AARCH64_TRAMPOLINE == <<17, 0, 0, 144, 49, 2, 64, 249, 32, 2, 31, 214>>

\* JMP [RIP + ...]
X86_64_TRAMPOLINE == <<255, 37, 0, 0, 0, 0>>

\* The alignment emit_trampoline asks for a stub.
Aarch64StubAlign == 4

X86StubAlign == 1

\* Bytes of one table slot, and the alignment of the table.
SlotSize == 8

\* The architecture's page, which ADRP addresses.
PageBytes == 4096

Archs == {"X86_64", "Aarch64", "Riscv64"}

Formats == {"Elf", "Macho", "Coff"}

\* libcall.to_function_name(): one name per libcall.
to_function_name(libcall) == <<"wasmer_vm_libcall", libcall>>

\* libcall.function_pointer(): one address per libcall.
function_pointer(libcall) == 1000000 + 16 * libcall

(***************************************************************************)
(* object::write::Object, as far as trampoline.rs uses it.                 *)
(***************************************************************************)
EmptySymbol(name, kind, scope, section) ==
    [name |-> name, value |-> 0, size |-> 0, kind |-> kind, scope |-> scope,
     section |-> section]

\* obj.add_symbol(symbol): the new symbol's id is its place in the table.
add_symbol(o, symbol) == [o EXCEPT !.symbols = Append(@, symbol)]

\* obj.set_symbol_data(symbol_id, section, offset, size)
set_symbol_data(o, id, section, offset, size) ==
    [o EXCEPT !.symbols[id].value = offset,
              !.symbols[id].size = size,
              !.symbols[id].section = section]

\* obj.add_symbol_bss(symbol_id, bss, size, align)
add_symbol_bss(o, id, size, align) ==
    LET offset == AlignUp(o.bss, align)
        o1 == [o EXCEPT !.bss = offset + size, !.bssAlign = Max(@, align)]
    IN  set_symbol_data(o1, id, "bss", offset, size)

\* The offset obj.add_symbol_data(symbol_id, text, data, align) returns.
SymbolDataOffset(o, align) == AlignUp(Len(o.text), align)

\* obj.add_symbol_data(symbol_id, text, data, align)
add_symbol_data(o, id, data, align) ==
    LET offset == SymbolDataOffset(o, align)
        o1 == [o EXCEPT !.text = @ \o Zeros(offset - Len(@)) \o data,
                        !.textAlign = Max(@, align)]
    IN  set_symbol_data(o1, id, "text", offset, Len(data))

\* obj.add_relocation(text, relocation)
add_relocation(o, relocation) == [o EXCEPT !.relocs = Append(@, relocation)]

Reloc(offset, kind, symbol, addend) ==
    [offset |-> offset, size |-> 32, kind |-> kind, symbol |-> symbol,
     addend |-> addend]

(***************************************************************************)
(* emit_trampoline                                                         *)
(***************************************************************************)
\* The target pairs emit_trampoline has a match arm for.
Supported(t) ==
    \/ t.arch = "X86_64"
    \/ t.arch = "Aarch64" /\ t.format \in {"Elf", "Macho"}

Aarch64RelocKinds(format) ==
    IF format = "Elf"
    THEN <<"R_AARCH64_ADR_PREL_PG_HI21", "R_AARCH64_LDST64_ABS_LO12_NC">>
    ELSE <<"ARM64_RELOC_PAGE21", "ARM64_RELOC_PAGEOFF12">>

Aarch64Addend(libcall) == libcall * 8

X86AddendNoRipFix(libcall) == libcall * 8
\* -4 because RIP-relative addressing starts from the end of the instruction.
X86Addend(libcall) == libcall * 8 - 4

Aarch64SecondRelocOffsetBad(offset) == offset + 10
Aarch64SecondRelocOffset(offset) == offset + 4

X86RelocOffset(offset) == offset + 2

StubAlignBad(arch) == IF arch = "Aarch64" THEN 2 * Aarch64StubAlign ELSE X86StubAlign
StubAlign(arch) == IF arch = "Aarch64" THEN Aarch64StubAlign ELSE X86StubAlign

StubBytes(arch) == IF arch = "Aarch64" THEN AARCH64_TRAMPOLINE ELSE X86_64_TRAMPOLINE

\* The symbol emit_trampoline adds for the stub, before it looks at the target.
LibcallSymbol(libcall) ==
    EmptySymbol(to_function_name(libcall), "Text", "Compilation", "text")

\* emit_trampoline up to the match on the architecture.
EmitTrampolineSymbol(o, libcall) == add_symbol(o, LibcallSymbol(libcall))

\* emit_trampoline(obj, text, trampoline_table, libcall, target) on a target
\* it has a match arm for.
emit_trampoline(o, trampoline_table, libcall, t) ==
    LET o0 == EmitTrampolineSymbol(o, libcall)
        libcall_symbol == Len(o0.symbols)
        offset == SymbolDataOffset(o0, StubAlign(t.arch))
        o1 == add_symbol_data(o0, libcall_symbol, StubBytes(t.arch), StubAlign(t.arch))
    IN  IF t.arch = "Aarch64"
        THEN LET kinds == Aarch64RelocKinds(t.format)
                 o2 == add_relocation(o1,
                           Reloc(offset, kinds[1], trampoline_table,
                                 Aarch64Addend(libcall)))
             IN  add_relocation(o2,
                     Reloc(Aarch64SecondRelocOffset(offset), kinds[2],
                           trampoline_table, Aarch64Addend(libcall)))
        ELSE add_relocation(o1,
                 Reloc(X86RelocOffset(offset), "Relative", trampoline_table,
                       X86Addend(libcall)))

(***************************************************************************)
(* emit_trampolines                                                        *)
(***************************************************************************)
TableBytesHalf == VARIANT_COUNT * 4
\* LibCall::VARIANT_COUNT as u64 * 8
TableBytes == VARIANT_COUNT * 8

\* The section the internal alias is set to.
InternalAliasSection == "text"

\* emit_trampolines up to its loop: the table and its two symbols.
EmitTable(o) ==
    LET o1 == add_symbol(o,
                  EmptySymbol(WASMER_TRAMPOLINES_SYMBOL, "Data", "Dynamic", "bss"))
        trampoline_table == Len(o1.symbols)
        o2 == add_symbol_bss(o1, trampoline_table, TableBytes, SlotSize)
        o3 == add_symbol(o2,
                  EmptySymbol(WASMER_TRAMPOLINES_SYMBOL_INTERNAL, "Data",
                              "Compilation", "bss"))
        trampoline_table_internal == Len(o3.symbols)
        sym == o3.symbols[trampoline_table]
    IN  set_symbol_data(o3, trampoline_table_internal, InternalAliasSection,
                        sym.value, sym.size)

\* The ids of the two table symbols in the object.
SymbolId(o, name) == CHOOSE id \in 1 .. Len(o.symbols) : o.symbols[id].name = name

TrampolineTable(o) == SymbolId(o, WASMER_TRAMPOLINES_SYMBOL)

TrampolineTableInternal(o) == SymbolId(o, WASMER_TRAMPOLINES_SYMBOL_INTERNAL)

EmitTrampolinesStart ==
    /\ tpc = "start"
    /\ obj' = EmitTable(obj)
    /\ tpc' = "loop"
    /\ idx' = 0
    /\ UNCHANGED <<target, pre, textAddr, bssAddr, lpc, fidx, mem, writes, called, memVars, cliVars>>

\* One turn of `for libcall in LibCall::into_enum_iter()` on a supported target.
EmitTrampolineStep ==
    /\ tpc = "loop"
    /\ idx < VARIANT_COUNT
    /\ Supported(target)
    /\ obj' = emit_trampoline(obj, TrampolineTableInternal(obj), idx, target)
    /\ idx' = idx + 1
    /\ tpc' = IF idx + 1 = VARIANT_COUNT THEN "done" ELSE "loop"
    /\ UNCHANGED <<target, pre, textAddr, bssAddr, lpc, fidx, mem, writes, called, memVars, cliVars>>

\* The same turn on a target emit_trampoline has no arm for: panic!.
EmitTrampolinePanic ==
    /\ tpc = "loop"
    /\ idx < VARIANT_COUNT
    /\ ~Supported(target)
    /\ obj' = EmitTrampolineSymbol(obj, idx)
    /\ tpc' = "panicked"
    /\ UNCHANGED <<target, pre, idx, textAddr, bssAddr, lpc, fidx, mem, writes, called, memVars, cliVars>>

(***************************************************************************)
(* The loader: it maps the sections, and the linker's relocation           *)
(* arithmetic decides the address each stub loads its target from.         *)
(***************************************************************************)
TextAddrs == {4096, 8168}

BssAddrs == {12280, 16384}

SectionAddr(section) == IF section = "text" THEN textAddr ELSE bssAddr

SymbolAddr(sym) == SectionAddr(sym.section) + sym.value

Page(a) == a - (a % PageBytes)

\* The value the linker computes for relocation r (S + A - P, or the page
\* difference and the offset in the page of S + A).
RelocValue(r) ==
    LET S == SymbolAddr(obj.symbols[r.symbol])
        A == r.addend
        P == textAddr + r.offset
    IN  CASE r.kind = "Relative" -> S + A - P
          [] r.kind \in {"R_AARCH64_ADR_PREL_PG_HI21", "ARM64_RELOC_PAGE21"} ->
                 Page(S + A) - Page(P)
          [] OTHER -> (S + A) % PageBytes

\* The immediate of the instruction field at text offset `offset`: what the
\* relocation on it computes, or the 0 of the stub's bytes when none is.
PatchedField(offset) ==
    LET rs == {k \in 1 .. Len(obj.relocs) : obj.relocs[k].offset = offset}
    IN  IF rs = {} THEN 0 ELSE RelocValue(obj.relocs[CHOOSE k \in rs : TRUE])

StubSymbol(libcall) == obj.symbols[SymbolId(obj, to_function_name(libcall))]

\* The address stub `libcall` loads the pointer it jumps to from.
StubSlotAddr(libcall) ==
    LET stub == StubSymbol(libcall).value
    IN  IF target.arch = "Aarch64"
        THEN \* ADRP x17, page ; LDR x17, [x17, lo12] ; BR x17
             Page(textAddr + stub) + PatchedField(stub) + PatchedField(stub + 4)
        ELSE \* JMP [RIP + disp32], RIP being the end of the instruction
             (textAddr + stub + Len(X86_64_TRAMPOLINE)) + PatchedField(stub + 2)

\* The address of the exported table, which the loader looks up.
TableBase == SymbolAddr(obj.symbols[TrampolineTable(obj)])

\* The 8-byte word at `addr`: what was written there, the zero of an untouched
\* bss word, and otherwise bytes that are no function pointer.
Load64(addr) ==
    IF addr \in DOMAIN mem THEN mem[addr]
    ELSE IF addr >= bssAddr /\ addr + SlotSize <= bssAddr + obj.bss THEN 0
    ELSE -1

Store64(m, addr, value) ==
    [a \in DOMAIN m \cup {addr} |-> IF a = addr THEN value ELSE m[a]]

\* The loader maps the finished object.
Load ==
    /\ tpc = "done"
    /\ lpc = "unloaded"
    /\ \E ta \in TextAddrs, ba \in BssAddrs :
          /\ ta % obj.textAlign = 0
          /\ ba % obj.bssAlign = 0
          /\ textAddr' = ta
          /\ bssAddr' = ba
    /\ lpc' = "mapped"
    /\ UNCHANGED <<target, pre, obj, tpc, idx, fidx, mem, writes, called, memVars, cliVars>>

FillSlotAddr(table, libcall) == table + libcall * SlotSize

\* One turn of the loop of fill_trampoline_table(table), table being the
\* address of the exported symbol.
FillStep ==
    /\ lpc = "mapped"
    /\ fidx < VARIANT_COUNT
    /\ mem' = Store64(mem, FillSlotAddr(TableBase, fidx), function_pointer(fidx))
    /\ writes' = Append(writes, FillSlotAddr(TableBase, fidx))
    /\ fidx' = fidx + 1
    /\ lpc' = IF fidx + 1 = VARIANT_COUNT THEN "filled" ELSE "mapped"
    /\ UNCHANGED <<target, pre, obj, tpc, idx, textAddr, bssAddr, called, memVars, cliVars>>

\* Compiled code calls through stub `libcall`.
CallStub ==
    /\ lpc = "filled"
    /\ \E libcall \in LibCalls :
          called' = [stub |-> libcall, slot |-> StubSlotAddr(libcall),
                     callee |-> Load64(StubSlotAddr(libcall))]
    /\ UNCHANGED <<target, pre, obj, tpc, idx, textAddr, bssAddr, lpc, fidx, mem, writes, memVars, cliVars>>

NoCall == [stub |-> -1, slot |-> 0, callee |-> 0]

TrampIdle ==
    /\ target = [arch |-> "X86_64", format |-> "Elf"]
    /\ pre = [symbols |-> <<>>, text |-> <<>>, textAlign |-> 1, bss |-> 0,
              bssAlign |-> 1, relocs |-> <<>>]
    /\ obj = pre
    /\ tpc = "idle"
    /\ idx = 0
    /\ textAddr = 0
    /\ bssAddr = 0
    /\ lpc = "unloaded"
    /\ fidx = 0
    /\ mem = << >>
    /\ writes = << >>
    /\ called = NoCall

MemIdle ==
    /\ handles = << >>
    /\ pages = << >>
    /\ slot = 0
    /\ last_error = "none"
    /\ last = [op |-> "none"]
    /\ everFreed = {}

CliIdle ==
    /\ args = << >>
    /\ features = {}
    /\ cpc = "idle"
    /\ outcome = [path |-> "none"]

\* The object holds tl bytes of function code (0xCC) and bl bytes of bss.
InitTramp ==
    /\ target \in [arch : Archs, format : Formats]
    /\ \E tl \in 0 .. MaxTextLen, bl \in 0 .. MaxBssLen :
          pre = [symbols |-> <<>>, text |-> [j \in 1 .. tl |-> 204],
                 textAlign |-> 1, bss |-> bl, bssAlign |-> 1, relocs |-> <<>>]
    /\ obj = pre
    /\ tpc = "start"
    /\ idx = 0
    /\ textAddr = 0
    /\ bssAddr = 0
    /\ lpc = "unloaded"
    /\ fidx = 0
    /\ mem = << >>
    /\ writes = << >>
    /\ called = NoCall
    /\ MemIdle
    /\ CliIdle

NextTramp ==
    \/ EmitTrampolinesStart
    \/ EmitTrampolineStep
    \/ EmitTrampolinePanic
    \/ Load
    \/ FillStep
    \/ CallStub

SpecTramp == InitTramp /\ [][NextTramp]_vars

(***************************************************************************)
(* The C memory interface (memory.rs).  A handle is the allocation         *)
(* Box::into_raw returned: 1 .. MaxHandles, and Null.                      *)
(***************************************************************************)
\* Memories the caller creates in one run.
MaxHandles == 2
\* The largest size of a memory, in pages.
MaxPages == 1

Null == 0

\* Bytes of a page: `Bytes(len)` of `memory.size().bytes()`.
WASM_PAGE_SIZE == 65536

Handles == 1 .. MaxHandles

\* The pointers a caller can hold: NULL and what wasmer_memory_new gave it.
HeldPointers == {Null} \cup {h \in Handles : handles[h] # "unalloc"}

\* `memory.is_null()`
is_nullNever(memory) == FALSE
is_null(memory) == memory = Null

\* `&*(memory as *const Memory)`: sound on a live Memory only.
DerefIsUB(memory) == memory = Null \/ handles[memory] # "live"

\* wasmer_memory_new, from the outcomes of MemoryDescriptor::new and of
\* Memory::new: what it returns, whether it stores through `memory`, and the
\* error it hands to update_last_error.
wasmer_memory_new_StoresOnError(descOk, memOk) ==
    IF ~descOk
    THEN [result |-> "WASMER_ERROR", store |-> FALSE, error |-> "descriptor"]
    ELSE [result |-> IF memOk THEN "WASMER_OK" ELSE "WASMER_ERROR",
          store |-> TRUE, error |-> IF memOk THEN "none" ELSE "creation"]
wasmer_memory_new_outcome(descOk, memOk) ==
    IF ~descOk
    THEN [result |-> "WASMER_ERROR", store |-> FALSE, error |-> "descriptor"]
    ELSE IF ~memOk
    THEN [result |-> "WASMER_ERROR", store |-> FALSE, error |-> "creation"]
    ELSE [result |-> "WASMER_OK", store |-> TRUE, error |-> "none"]

Call(op, arg, result, ub) ==
    [op |-> op, arg |-> arg, result |-> result, ub |-> ub]

\* The allocation Box::new would return: Null when the model has no more.
NextHandle ==
    IF \E h \in Handles : handles[h] = "unalloc"
    THEN CHOOSE h \in Handles :
             handles[h] = "unalloc" /\ \A g \in Handles : g < h => handles[g] # "unalloc"
    ELSE Null

wasmer_memory_new ==
    \E limits \in [min : 0 .. MaxPages, has_some : BOOLEAN, some : 0 .. MaxPages],
       descOk \in BOOLEAN, memOk \in BOOLEAN :
        LET out == wasmer_memory_new_outcome(descOk, memOk)
            created == descOk /\ memOk
        IN  /\ created => NextHandle # Null
            /\ handles' = IF created THEN [handles EXCEPT ![NextHandle] = "live"]
                          ELSE handles
            /\ pages' = IF created THEN [pages EXCEPT ![NextHandle] = limits.min]
                        ELSE pages
            /\ slot' = IF out.store THEN NextHandle ELSE slot
            /\ last_error' = IF out.error = "none" THEN last_error ELSE out.error
            /\ last' = [op |-> "new", arg |-> Null, result |-> out.result,
                        ub |-> FALSE, descOk |-> descOk, memOk |-> memOk,
                        slotBefore |-> slot, errorBefore |-> last_error]
            /\ UNCHANGED <<everFreed, trampVars, cliVars>>

wasmer_memory_grow ==
    \E memory \in HeldPointers, delta \in 0 .. MaxPages, growOk \in BOOLEAN :
        IF DerefIsUB(memory)
        THEN /\ \E r \in {"WASMER_OK", "WASMER_ERROR"} :
                   last' = Call("grow", memory, r, TRUE)
             /\ UNCHANGED <<handles, pages, slot, last_error, everFreed, trampVars, cliVars>>
        ELSE /\ growOk => pages[memory] + delta <= MaxPages
             /\ pages' = IF growOk THEN [pages EXCEPT ![memory] = @ + delta] ELSE pages
             /\ last_error' = IF growOk THEN last_error ELSE "grow"
             /\ last' = Call("grow", memory,
                             IF growOk THEN "WASMER_OK" ELSE "WASMER_ERROR", FALSE)
             /\ UNCHANGED <<handles, slot, everFreed, trampVars, cliVars>>

wasmer_memory_length ==
    \E memory \in HeldPointers :
        /\ IF is_null(memory)
           THEN last' = Call("length", memory, 0, FALSE)
           ELSE IF DerefIsUB(memory)
           THEN \E r \in 0 .. MaxPages : last' = Call("length", memory, r, TRUE)
           ELSE last' = Call("length", memory, pages[memory], FALSE)
        /\ UNCHANGED <<handles, pages, slot, last_error, everFreed, trampVars, cliVars>>

wasmer_memory_data ==
    \E mem_ \in HeldPointers :
        /\ last' = Call("data", mem_, mem_, DerefIsUB(mem_))
        /\ UNCHANGED <<handles, pages, slot, last_error, everFreed, trampVars, cliVars>>

wasmer_memory_data_length ==
    \E mem_ \in HeldPointers :
        /\ IF DerefIsUB(mem_)
           THEN \E r \in 0 .. MaxPages :
                    last' = Call("data_length", mem_, r * WASM_PAGE_SIZE, TRUE)
           ELSE last' = Call("data_length", mem_, pages[mem_] * WASM_PAGE_SIZE, FALSE)
        /\ UNCHANGED <<handles, pages, slot, last_error, everFreed, trampVars, cliVars>>

wasmer_memory_destroy ==
    \E memory \in HeldPointers :
        IF is_null(memory)
        THEN /\ last' = Call("destroy", memory, "nothing", FALSE)
             /\ UNCHANGED <<handles, pages, slot, last_error, everFreed, trampVars, cliVars>>
        ELSE IF DerefIsUB(memory)
        THEN \* Box::from_raw of NULL or of a Memory already dropped
             /\ last' = Call("destroy", memory, "dropped", TRUE)
             /\ UNCHANGED <<handles, pages, slot, last_error, everFreed, trampVars, cliVars>>
        ELSE /\ handles' = [handles EXCEPT ![memory] = "freed"]
             /\ everFreed' = everFreed \cup {memory}
             /\ last' = Call("destroy", memory, "dropped", FALSE)
             /\ UNCHANGED <<pages, slot, last_error, trampVars, cliVars>>

InitMem ==
    /\ handles = [h \in Handles |-> "unalloc"]
    /\ pages = [h \in Handles |-> 0]
    /\ slot = Null
    /\ last_error = "none"
    /\ last = [op |-> "none"]
    /\ everFreed = {}
    /\ TrampIdle
    /\ CliIdle

NextMem ==
    \/ wasmer_memory_new
    \/ wasmer_memory_grow
    \/ wasmer_memory_length
    \/ wasmer_memory_data
    \/ wasmer_memory_data_length
    \/ wasmer_memory_destroy

SpecMem == InitMem /\ [][NextMem]_vars

(***************************************************************************)
(* Properties of the memory interface.                                     *)
(***************************************************************************)
\* C7: wasmer_memory_new returns WASMER_OK exactly when the descriptor and
\* the memory were both created, and then the out-parameter holds a new live
\* handle; otherwise it returns WASMER_ERROR, the last error is that step's
\* error, and the out-parameter is what it was.
C7_NewStoresOnlyOnSuccess ==
    last.op = "new" =>
        /\ last.result = "WASMER_OK" <=> (last.descOk /\ last.memOk)
        /\ last.result \in {"WASMER_OK", "WASMER_ERROR"}
        /\ last.result = "WASMER_OK" =>
              /\ slot # Null
              /\ slot # last.slotBefore
              /\ handles[slot] = "live"
              /\ last_error = last.errorBefore
        /\ last.result = "WASMER_ERROR" =>
              /\ slot = last.slotBefore
              /\ last_error = IF last.descOk THEN "creation" ELSE "descriptor"

C7_Witness ==
    /\ last.op = "new"
    /\ last.result = "WASMER_ERROR"
    /\ last.descOk
    /\ slot # Null

\* C8: wasmer_memory_length of NULL returns 0 and wasmer_memory_destroy of
\* NULL does nothing, neither touching the pointer; one destroy of a live
\* handle releases it; a released handle stays released.
C8_NullSafeAndReleasedForGood ==
    /\ (last.op = "length" /\ last.arg = Null) => (~last.ub /\ last.result = 0)
    /\ (last.op = "destroy" /\ last.arg = Null) =>
          (~last.ub /\ last.result = "nothing")
    /\ (last.op = "destroy" /\ last.arg # Null /\ ~last.ub) =>
          (handles[last.arg] = "freed" /\ last.arg \in everFreed)
    /\ \A h \in everFreed : handles[h] = "freed"

C8_Witness ==
    /\ last.op = "destroy"
    /\ last.arg = Null
    /\ everFreed # {}
    /\ \E h \in Handles : handles[h] = "live"

(***************************************************************************)
(* The command line (cli.rs).  clap is modelled by what it reports for an  *)
(* argument vector: a command, or an error kind.                           *)
(***************************************************************************)
\* Arguments after the program name.
MaxArgs == 2

\* The names wasmer_main matches the first argument against.
KnownNames ==
    {"cache", "compile", "config", "create-exe", "help", "inspect", "run",
     "self-update", "validate", "wast"}

Features == {"compiler", "object-file", "wast"}

\* The #[clap(name = ...)] of the variants of WasmerCLIOptions in a build.
DeclaredNames(fs) ==
    {"run", "cache", "validate", "config", "self-update", "inspect"}
        \cup (IF "compiler" \in fs THEN {"compile"} ELSE {})
        \cup (IF {"object-file", "compiler"} \subseteq fs THEN {"create-exe"} ELSE {})
        \cup (IF "wast" \in fs THEN {"wast"} ELSE {})

\* What an argument can be: a name, a flag clap answers itself, a file, and
\* a flag no command takes.
Tokens == KnownNames \cup {"--help", "-V", "file.wasm", "--bad"}

Ok(cmd) == [ok |-> TRUE, cmd |-> cmd, kind |-> "none"]

Err(kind) == [ok |-> FALSE, cmd |-> "none", kind |-> kind]

\* clap on the arguments of one command, left to right.
RECURSIVE ParseArgsAs(_, _, _)
ParseArgsAs(cmd, rest, positionals) ==
    IF rest = << >>
    THEN IF cmd = "run" /\ positionals = 0
         THEN Err("MissingRequiredArgument")
         ELSE Ok(cmd)
    ELSE CASE Head(rest) = "--help" -> Err("DisplayHelp")
           [] Head(rest) = "-V" -> Err("DisplayVersion")
           [] Head(rest) = "--bad" -> Err("UnknownArgument")
           [] OTHER -> ParseArgsAs(cmd, Tail(rest), positionals + 1)

\* WasmerCLIOptions::try_parse_from(args)
try_parse_from(argv, fs) ==
    IF argv = << >> THEN Err("MissingArgumentOrSubcommand")
    ELSE CASE argv[1] \in {"--help", "help"} -> Err("DisplayHelp")
           [] argv[1] = "-V" -> Err("DisplayVersion")
           [] argv[1] \in DeclaredNames(fs) -> ParseArgsAs(argv[1], Tail(argv), 0)
           [] argv[1] = "--bad" -> Err("UnknownArgument")
           [] OTHER -> Err("UnrecognizedSubcommand")

\* Run::parse(): the whole argument vector as the arguments of `run`.
RunParse(argv) == ParseArgsAs("run", argv, 0)

known_subcommand_without_run(command) == command \in KnownNames \ {"run"}
\* The first arm of the match on the first argument.
known_subcommand(command) == command \in KnownNames

\* The error kinds on which the fallback exits instead of trying Run.
fallback_exits(kind) == kind \in {"DisplayVersion", "DisplayHelp"}

\* What a finished parse leads to: the command is executed once, or the
\* process has exited in clap.
Finish(path, parsed) ==
    [path |-> path,
     exit |-> parsed.kind,
     executed |-> IF parsed.ok THEN <<parsed.cmd>> ELSE << >>]

wasmer_main_outcome(argv, fs) ==
    LET command == IF Len(argv) >= 1 THEN argv[1] ELSE ""
    IN  IF known_subcommand(command)
        THEN Finish("parse", try_parse_from(argv, fs))
        ELSE LET tried == try_parse_from(argv, fs)
             IN  IF tried.ok THEN Finish("try_parse", tried)
                 ELSE IF fallback_exits(tried.kind) THEN Finish("try_parse", tried)
                 ELSE Finish("run_fallback", RunParse(argv))

wasmer_main ==
    /\ cpc = "start"
    /\ outcome' = wasmer_main_outcome(args, features)
    /\ cpc' = "done"
    /\ UNCHANGED <<args, features, trampVars, memVars>>

RECURSIVE ArgVectors(_)
ArgVectors(n) ==
    IF n = 0 THEN {<< >>}
    ELSE ArgVectors(n - 1) \cup
         {Append(v, t) : v \in {w \in ArgVectors(n - 1) : Len(w) = n - 1}, t \in Tokens}

InitCli ==
    /\ args \in ArgVectors(MaxArgs)
    /\ features \in SUBSET Features
    /\ cpc = "start"
    /\ outcome = [path |-> "none"]
    /\ TrampIdle
    /\ MemIdle

NextCli == wasmer_main

SpecCli == InitCli /\ [][NextCli]_vars

(***************************************************************************)
(* Properties of the command line.                                         *)
(***************************************************************************)
FirstArg == IF Len(args) >= 1 THEN args[1] ELSE ""

\* The part of C9 on which command is chosen: a known first argument is
\* parsed normally and never as Run; any other is tried normally, stops at a
\* help or version request, and is parsed as Run on any other error; every
\* declared name is a known one.
C9_Choice ==
    /\ DeclaredNames(Features) \subseteq
           {"cache", "compile", "config", "create-exe", "help", "inspect", "run",
            "self-update", "validate", "wast"}
    /\ FirstArg \in KnownNames =>
          /\ outcome.path = "parse"
          /\ outcome.executed # << >> => outcome.executed = <<FirstArg>>
    /\ FirstArg \notin KnownNames =>
          LET tried == try_parse_from(args, features)
          IN  /\ ~tried.ok
              /\ tried.kind \in {"DisplayVersion", "DisplayHelp"} =>
                    /\ outcome.path = "try_parse"
                    /\ outcome.exit = tried.kind
                    /\ outcome.executed = << >>
              /\ tried.kind \notin {"DisplayVersion", "DisplayHelp"} =>
                    /\ outcome.path = "run_fallback"
                    /\ outcome.executed \in {<< >>, <<"run">>}
                    /\ outcome.executed = <<"run">> <=> RunParse(args).ok

\* C9 as stated: the choice above, and exactly one command is executed in
\* every invocation.
C9_ExactlyOneCommandExecuted ==
    cpc = "done" => (C9_Choice /\ Len(outcome.executed) = 1)

\* C9 amended: the choice above, and at most one command is executed: one
\* when the arguments parse, none when the process exits in the parser.
C9_AtMostOneCommandExecuted ==
    cpc = "done" =>
        /\ C9_Choice
        /\ Len(outcome.executed) <= 1
        /\ Len(outcome.executed) = 1 <=> outcome.exit = "none"

C9_Witness ==
    /\ cpc = "done"
    /\ outcome.path = "run_fallback"
    /\ outcome.executed = <<"run">>
    /\ Len(args) = 2

(***************************************************************************)
(* Properties of the trampoline builder.                                   *)
(***************************************************************************)
\* emit_trampolines has got past the table and its symbols.
TableEmitted == tpc \in {"loop", "done", "panicked"}

RelocsPerStub == IF target.arch = "Aarch64" THEN 2 ELSE 1

\* The relocations the idx-th call of emit_trampoline attached, by their place.
StubRelocIds(libcall) ==
    {k \in 1 .. Len(obj.relocs) :
        /\ k > Len(pre.relocs) + libcall * RelocsPerStub
        /\ k <= Len(pre.relocs) + (libcall + 1) * RelocsPerStub}

\* The symbol the (libcall+1)-th call of emit_trampoline added.
EmittedStub(libcall) == obj.symbols[Len(pre.symbols) + 2 + libcall + 1]

\* C1 as stated: on both architectures every relocation of stub i carries
\* the addend i * 8.
C1_AddendIsIndexTimes8 ==
    \A i \in 0 .. (idx - 1) : \A k \in StubRelocIds(i) :
        obj.relocs[k].addend = i * 8

\* C1 amended: every relocation of stub i carries the addend i * 8 on AArch64
\* and i * 8 - 4 on x86-64, where the 4 bytes between the patched field and
\* the end of the instruction make the address reached symbol + i * 8.
C1_AddendPerArchitecture ==
    \A i \in 0 .. (idx - 1) :
        /\ StubRelocIds(i) # {}
        /\ \A k \in StubRelocIds(i) :
              obj.relocs[k].addend =
                  IF target.arch = "Aarch64" THEN i * 8 ELSE i * 8 - 4

C1_Witness == tpc = "done" /\ target.arch = "X86_64" /\ Len(obj.relocs) = VARIANT_COUNT

\* C2: once the table is filled, stub i loads its target from table base +
\* i * 8, the word there is libcall i's function pointer, and a call through
\* stub i reaches libcall i.
C2_StubCallsItsLibcall ==
    lpc = "filled" =>
        /\ \A i \in LibCalls :
              /\ StubSlotAddr(i) = TableBase + i * 8
              /\ Load64(StubSlotAddr(i)) = function_pointer(i)
        /\ called.stub \in LibCalls => called.callee = function_pointer(called.stub)

\* C3: the internal symbol and the exported symbol are defined in the same
\* data section, at the same offset, with the same size.
C3_AliasNamesSameBytes ==
    TableEmitted =>
        LET internal == obj.symbols[TrampolineTableInternal(obj)]
            exported == obj.symbols[TrampolineTable(obj)]
        IN  /\ internal.section = exported.section
            /\ exported.section = "bss"
            /\ internal.value = exported.value
            /\ internal.size = exported.size

\* C4: the table is VARIANT_COUNT * 8 bytes of bss, 8-byte aligned, reserved
\* after what the section held; fill_trampoline_table writes slot k of the
\* table, k = 0, 1, ..., once each and in the table, with libcall k's pointer.
C4_TableSizedAndFilledInBounds ==
    TableEmitted =>
        LET table == obj.symbols[TrampolineTable(obj)]
        IN  /\ table.section = "bss"
            /\ table.size = VARIANT_COUNT * 8
            /\ table.value % 8 = 0
            /\ obj.bssAlign % 8 = 0
            /\ table.value >= pre.bss
            /\ obj.bss = table.value + table.size
            /\ Len(writes) = fidx
            /\ fidx <= VARIANT_COUNT
            /\ lpc = "filled" => fidx = VARIANT_COUNT
            /\ DOMAIN mem = {writes[k] : k \in 1 .. Len(writes)}
            /\ \A k \in 1 .. Len(writes) :
                  /\ writes[k] = TableBase + (k - 1) * 8
                  /\ writes[k] % 8 = 0
                  /\ writes[k] >= bssAddr + table.value
                  /\ writes[k] + 8 <= bssAddr + table.value + table.size
                  /\ mem[writes[k]] = function_pointer(k - 1)

C4_Witness == lpc = "filled" /\ pre.bss % 8 # 0 /\ Len(writes) = VARIANT_COUNT

\* C5: when emit_trampolines aborts on an unsupported target, the object
\* holds nothing it did not hold before the call.
C5_AbortLeavesObjectUntouched == tpc = "panicked" => obj = pre

\* C6: one stub per libcall, in enumeration order, 12 bytes on AArch64 and 6
\* on x86-64, stub i at the offset of stub 0 plus i strides, with nothing
\* between or after them, whatever code the section held before.
C6_StubsContiguous ==
    (tpc \in {"loop", "done"}) =>
        LET stride == IF target.arch = "Aarch64" THEN 12 ELSE 6
        IN  /\ Len(obj.symbols) = Len(pre.symbols) + 2 + idx
            /\ tpc = "done" <=> idx = VARIANT_COUNT
            /\ \A i \in 0 .. (idx - 1) :
                  LET stub == EmittedStub(i)
                  IN  /\ stub.name = to_function_name(i)
                      /\ stub.section = "text"
                      /\ stub.size = stride
                      /\ stub.value >= Len(pre.text)
                      /\ stub.value = EmittedStub(0).value + i * stride
                      /\ stub.value + stride <= Len(obj.text)
                      /\ \A b \in 1 .. stride :
                            obj.text[stub.value + b] = StubBytes(target.arch)[b]
            /\ idx > 0 => Len(obj.text) = EmittedStub(0).value + idx * stride
            /\ \A b \in 1 .. Len(pre.text) : obj.text[b] = pre.text[b]

C6_Witness ==
    /\ tpc = "done"
    /\ target.arch = "Aarch64"
    /\ Len(pre.text) % 4 # 0
    /\ Len(obj.symbols) = VARIANT_COUNT + 2

\* C10: every relocation names the internal table symbol; stub i has two on
\* AArch64 (at +0 and +4) and one on x86-64 (at +2); the 4 bytes each patches
\* lie in its stub, and no two patch a common byte.
C10_RelocationsInsideOwnStub ==
    (tpc \in {"loop", "done"}) =>
        /\ Len(obj.relocs) = Len(pre.relocs) + idx * RelocsPerStub
        /\ \A k \in 1 .. Len(obj.relocs) :
              /\ obj.relocs[k].symbol = TrampolineTableInternal(obj)
              /\ obj.relocs[k].symbol # TrampolineTable(obj)
              /\ obj.symbols[obj.relocs[k].symbol].scope = "Compilation"
              /\ obj.relocs[k].size = 32
              /\ obj.relocs[k].offset >= Len(pre.text)
        /\ \A i \in 0 .. (idx - 1) :
              LET stub == EmittedStub(i)
                  offs == {obj.relocs[k].offset - stub.value : k \in StubRelocIds(i)}
              IN  /\ Cardinality(StubRelocIds(i)) = RelocsPerStub
                  /\ offs = IF target.arch = "Aarch64" THEN {0, 4} ELSE {2}
                  /\ \A d \in offs : d >= 0 /\ d + 4 <= stub.size
        /\ \A j, k \in 1 .. Len(obj.relocs) :
              j # k => \/ obj.relocs[j].offset + 4 <= obj.relocs[k].offset
                       \/ obj.relocs[k].offset + 4 <= obj.relocs[j].offset

C10_Witness ==
    /\ tpc = "done"
    /\ target.arch = "Aarch64"
    /\ Len(obj.relocs) = 2 * VARIANT_COUNT

=============================================================================
